---- MODULE Spec2Model ----
(***************************************************************************)
(* A model of package term of kylelemons/goat: the TTY input engine        *)
(* (run, emit, echo, Read), the line editor (linechar, lineesc, hpush,     *)
(* hprev) and the consumers that drain the chunk channel.                  *)
(*                                                                         *)
(* Bytes are the integers 0..255.  A Go slice is modelled by its value,    *)
(* except where two live slices share a backing array: the chunks pushed   *)
(* in Raw mode are views of t.buffer and are resolved against the buffer   *)
(* at the moment Read copies them.                                         *)
(***************************************************************************)
EXTENDS Integers, Sequences, FiniteSets, TLC

\* ---------------------------------------------------------------- bounds
\* Number of successful console reads in a run of SpecLine.
MaxLineReads == 4
\* Number of successful console reads in a run of SpecKeys.
MaxKeyReads == 6
\* Number of successful console reads in a run of SpecRaw.
MaxRawReads == 2
\* Number of successful console reads in a run of SpecReaders.
MaxReaderReads == 3
\* Largest number of bytes one console.Read returns in Raw mode.
MaxRead == 2
\* The cells of t.buffer the model keeps (no read is longer).
BufLen == 3
\* Largest destination buffer a consumer passes to Read.
MaxDst == 2
\* Number of consumers calling Read.
NReaders == 2
\* Number of goroutines calling the setters.
NSetters == 2
\* Number of successful console reads in a run of SpecEcho.
MaxEchoReads == 3
\* Number of successful console reads in a run of SpecFrame.
MaxFrameReads == 3
\* Number of successful console reads in a run of SpecTerm.
MaxCsiReads == 5
MaxArrowReads == 5
\* Number of successful console reads in a run of SpecSink.
MaxSinkReads == 4
\* Number of successful console reads in a run of SpecStall.
MaxStallReads == 3
MaxTermReads == 6
\* Largest coordinate passed to SetPos.
MaxPos == 2
\* Largest width and height passed to SetSize.
MaxSize == 3
\* Number of setter calls in a run.
MaxSets == 2
\* Number of successful console reads in a run of SpecSet.
MaxSetReads == 3

\* ------------------------------------------------------ program constants
ReadBufferLength == 32
DefaultLineBufferSize == 32
DefaultRawBufferSize == 256
DefaultFrameBufferSize == 8
FrameWidth == 80
FrameHeight == 24

borderHorizontal == 0
borderVertical == 1
borderTopLeft == 2
borderTopRight == 4
borderBottomLeft == 8
borderBottomRight == 10
ETX == 3
BS == 8
TAB == 9
LF == 10
CR == 13
ESC == 27
DEL == 127
SP == 32
ZERO == 48
AT == 64
UP == 65
DOWN == 66
RIGHT == 67
LEFT == 68
SEMI == 59
CUP == 72
LBRACK == 91
LOWER == 97
TILDE == 126

\* The control bytes linechar emits by themselves (SOH..BEL, VT, FF, SO..SUB,
\* FS..US): every C0 byte but NUL, BS, TAB, LF, CR and ESC.
CtlEmit == (1..7) \cup {11, 12} \cup (14..26) \cup (28..31)

Raw == "Raw"
Line == "Line"
Frame == "Frame"

NoErr == "nil"
Errors == {"EOF", "EIO"}

\* ---------------------------------------------------------------- helpers
Min(a, b) == IF a < b THEN a ELSE b

Rep(b, k) == [j \in 1..k |-> b]

Drop(s, k) == SubSeq(s, k + 1, Len(s))

Take(s, k) == SubSeq(s, 1, k)

\* All byte sequences over alphabet A of length 1..k.
Data(A, k) == UNION {[1..m -> A] : m \in 1..k}

IsPrefix(s, t) == Len(s) <= Len(t) /\ Take(t, Len(s)) = s

VARIABLES
    \* the console (byte source) and the reference terminal behind the sink
    nin,        \* successful console reads so far
    conerr,     \* the error console.Read returned, NoErr before it fails
    row, col,   \* the console seen as a one-row terminal: its row and cursor
    sinkok,     \* the sink behind t.screen accepts the next write
    \* TTY fields
    screen, next, closed, partial, error, mode, bsize, buffer,
    output, last, preescape, linepos,
    ncap,       \* cap(t.next)
    \* the processing task (TTY.run): position, bytes of the current read,
    \* index of the next byte, chunks it is pushing
    pc, n, i, sendq,
    \* observation
    wrote,      \* bytes the task wrote to the sink in its last step
    src,        \* Raw mode: every byte the console delivered, in order
    got,        \* Raw mode: every byte Read returned, in order
    ret,        \* the result of the last Read call
    powner,     \* the reader that received the current chunk from the channel
    pshort,     \* that Read's buffer was shorter than the chunk
    clean,      \* class of the input so far, see CleanStep
    upseq,      \* how much of ESC [ A the latest input bytes spell
    held,       \* the CSI sequence the latest input bytes spell, see HeldStep
    kept,       \* the unknown CSI sequence the line holds, see KeptStep
    wcalls,     \* Write calls the task made on the sink in its last step
    wfail,      \* one of them returned an error
    \* the rendezvous on t.update between yield and the setters
    holder,     \* the setter whose token the task took and waits on, or 0
    yielded,    \* the task is past the yield of its current position
    spos,       \* each setter's position inside its call
    sop,        \* each setter's call: which field and which value
    tok,        \* each setter's lock channel holds the value it sent
    nset,       \* setter calls that reached the rendezvous so far
    \* a Region of the TTY
    content, border,
    rop,        \* the last call made on the region
    want,       \* the arguments of the last SetPos and SetSize, -1 before
    drawn,      \* the bytes the last call wrote on the sink, if it was Draw
    \* caller-side operations (Write, Clear, SetCursor)
    scrw,       \* who assigned t.screen last
    sinkerr,    \* some write on the sink has returned an error
    wret        \* the result of the last TTY.Write call

tty == <<screen, next, closed, partial, error, mode, bsize, buffer,
         output, last, preescape, linepos, ncap>>
task == <<pc, n, i, sendq>>
env == <<nin, conerr, row, col, sinkok>>
obs == <<wrote, src, got, ret, powner, pshort, clean, upseq, held, kept,
         wcalls, wfail>>
sync == <<holder, yielded, spos, sop, tok, nset>>
region == <<content, border, rop, want, drawn>>
caller == <<scrw, sinkerr, wret>>
vars == <<env, tty, task, obs, sync, region, caller>>

\* ------------------------------------------------------------- the chunks
\* A chunk on the channel: its own bytes b, or (alias) a view of t.buffer.
\* off and n are the view's start and length.
OwnChunk(b) == [alias |-> FALSE, off |-> 0, n |-> Len(b), b |-> b]

BufChunk(k) == [alias |-> TRUE, off |-> 0, n |-> k, b |-> <<>>]

NoChunk == OwnChunk(<<>>)

\* The bytes a chunk holds now.
Bytes(c) == IF c.alias THEN SubSeq(buffer, c.off + 1, c.off + c.n)
            ELSE SubSeq(c.b, c.off + 1, c.off + c.n)

\* c[k:]
Slice(c, k) == IF c.n = k THEN NoChunk
               ELSE [c EXCEPT !.off = @ + k, !.n = @ - k]

\* -------------------------------------------------------- the line editor
\* The handlers are functions of the engine record e:
\*   output, preescape, last, linepos, screen   the TTY fields they use
\*   wrote   the bytes written to the echo sink by this call, in order
\*   sent    the chunks pushed on t.next by this call, in order
\*   seen    for each of them, the Write calls made on the sink before it
\*   fault   a slice expression was out of range (the goroutine panics)
\*   sinkok  the sink accepts writes during this call
\*   calls   the Write calls made on the sink by this call
\*   failed  one of them returned an error
Engine == [output |-> output, preescape |-> preescape, last |-> last,
           linepos |-> linepos, screen |-> screen,
           wrote |-> <<>>, sent |-> <<>>, seen |-> <<>>, fault |-> FALSE,
           sinkok |-> sinkok, calls |-> 0, failed |-> FALSE]

Fault(e) == [e EXCEPT !.fault = TRUE]

\* echo as it would be if a write error did not clear t.screen.
echoKeepScreen(e, b) ==
    IF e.screen # "nil"
    THEN IF e.sinkok
         THEN [e EXCEPT !.wrote = @ \o b, !.calls = @ + 1]
         ELSE [e EXCEPT !.calls = @ + 1, !.failed = TRUE]
    ELSE e

\* TTY.echo: write b to the sink when there is one; a write error clears
\* t.screen.
echo(e, b) ==
    IF e.screen # "nil"
    THEN IF e.sinkok
         THEN [e EXCEPT !.wrote = @ \o b, !.calls = @ + 1]
         ELSE [e EXCEPT !.screen = "nil", !.calls = @ + 1, !.failed = TRUE]
    ELSE e

\* A send that would overtake the sends already made.
pushFirst(e, b) == [e EXCEPT !.sent = <<b>> \o @, !.seen = <<e.calls>> \o @]

\* t.next <- b
push(e, b) == [e EXCEPT !.sent = Append(@, b), !.seen = Append(@, e.calls)]

\* emit as it would be without the preescape prefix.
emitOutputOnly(e) ==
    IF Len(e.output) > 0
    THEN [push(e, e.output) EXCEPT !.output = <<>>, !.linepos = -1,
                                   !.preescape = <<>>]
    ELSE [e EXCEPT !.preescape = <<>>]

\* TTY.emit
emit(e) ==
    LET e1 == IF Len(e.preescape) > 0
              THEN [e EXCEPT !.output = e.preescape \o e.output,
                             !.preescape = <<>>]
              ELSE e
    IN  IF Len(e1.output) > 0
        THEN [push(e1, e1.output) EXCEPT !.output = <<>>, !.linepos = -1]
        ELSE e1

\* hpush as it would be without the test of the first byte.
hpushAny(e) ==
    IF Len(e.output) = 0 THEN e ELSE [e EXCEPT !.last = e.output]

\* TTY.hpush
hpush(e) ==
    IF Len(e.output) = 0 \/ e.output[1] < SP
    THEN e
    ELSE [e EXCEPT !.last = e.output]

\* hprev as it would be if the line were recalled only when there is a sink
\* to show it on.
hprevShown(e) ==
    IF Len(e.last) = 0 \/ e.screen = "nil"
    THEN [e EXCEPT !.output = e.preescape, !.preescape = <<>>]
    ELSE echo([e EXCEPT !.output = e.last, !.preescape = <<>>,
                        !.linepos = -1],
              Rep(BS, Len(e.preescape)) \o e.last)

\* TTY.hprev
hprev(e) ==
    IF Len(e.last) = 0
    THEN [e EXCEPT !.output = e.preescape, !.preescape = <<>>]
    ELSE LET width == Len(e.preescape)
             home == IF e.linepos >= 0 THEN e.linepos ELSE width
             delta == width - Len(e.last)
             overwrite == Rep(BS, home) \o e.last
                          \o (IF delta > 0
                              THEN Rep(SP, delta) \o Rep(BS, delta)
                              ELSE <<>>)
             e1 == [e EXCEPT !.output = e.last, !.preescape = <<>>,
                             !.linepos = -1]
         IN  echo(e1, overwrite)

\* The terminator case as it would be with the echo made last.
newlineEchoLast(e, ch) == echo(push(emit(hpush(e)), <<ch>>), <<CR, LF>>)

\* case '\r', '\n': echo, hpush, then (fallthrough) emit and the push of ch
newline(e, ch) == push(emit(hpush(echo(e, <<CR, LF>>))), <<ch>>)

\* The erase test as it would be without t.linepos == 0.
AtStartIfEmpty(e) == Len(e.output) = 0

\* case BS, DEL: len(t.output) == 0 || t.linepos == 0
AtStart(e) == Len(e.output) = 0 \/ e.linepos = 0

\* TTY.linechar
linechar(e, ch) ==
    IF ch = ESC THEN
        IF Len(e.output) > 0
        THEN [e EXCEPT !.preescape = e.output, !.output = <<ESC>>]
        ELSE [e EXCEPT !.output = <<ESC>>]
    ELSE IF ch \in {CR, LF} THEN newline(e, ch)
    ELSE IF ch \in CtlEmit THEN
        push(emit(e), <<ch>>)
    ELSE IF ch \in {BS, DEL} THEN
        IF AtStart(e) THEN e
        ELSE IF e.linepos > 0 THEN
            IF e.linepos > Len(e.output) THEN Fault(e)
            ELSE LET delta == Len(e.output) - e.linepos
                     tail == Drop(e.output, e.linepos)
                     overwrite == <<ch>> \o tail \o <<SP>>
                                  \o Rep(BS, delta + 1)
                 IN  [echo(e, overwrite) EXCEPT
                        !.output = Take(e.output, e.linepos - 1) \o tail,
                        !.linepos = e.linepos - 1]
        ELSE [echo(e, <<ch, SP, ch>>) EXCEPT
                !.output = Take(e.output, Len(e.output) - 1)]
    ELSE
        IF e.linepos >= 0 THEN
            IF e.linepos > Len(e.output) THEN Fault(e)
            ELSE LET delta == Len(e.output) - e.linepos
                     tail == Drop(e.output, e.linepos)
                     overwrite == <<ch>> \o tail \o Rep(BS, delta)
                 IN  [echo(e, overwrite) EXCEPT
                        !.output = Take(e.output, e.linepos) \o <<ch>> \o tail,
                        !.linepos = e.linepos + 1]
        ELSE [echo(e, <<ch>>) EXCEPT !.output = Append(e.output, ch)]

\* The tail of lineesc as it would be without t.preescape = nil.
restoreKeepPreescape(e) == [e EXCEPT !.output = e.preescape]

\* The tail of lineesc: a known sequence is dropped from the line.
restore(e) == [e EXCEPT !.output = e.preescape, !.preescape = <<>>]

\* TTY.lineesc
lineesc(e, ch) ==
    IF Len(e.output) = 1 THEN
        IF ch # LBRACK
        THEN linechar([echo(e, e.output) EXCEPT
                         !.output = e.preescape \o e.output,
                         !.preescape = <<>>], ch)
        ELSE [e EXCEPT !.output = Append(e.output, ch)]
    ELSE
        LET e1 == [e EXCEPT !.output = Append(e.output, ch)] IN
        IF ch >= AT /\ ch <= TILDE THEN
            IF ch = UP THEN hprev(e1)
            ELSE IF ch = DOWN THEN
                IF e1.linepos < 0 THEN restore(e1)
                ELSE IF e1.linepos > Len(e1.preescape) THEN Fault(e1)
                ELSE restore([echo(e1, Drop(e1.preescape, e1.linepos))
                                EXCEPT !.linepos = -1])
            ELSE IF ch = RIGHT THEN
                IF Len(e1.preescape) = 0 \/ e1.linepos < 0 THEN restore(e1)
                ELSE restore([echo(e1, e1.output) EXCEPT
                                !.linepos =
                                  IF e1.linepos + 1 = Len(e1.preescape)
                                  THEN -1 ELSE e1.linepos + 1])
            ELSE IF ch = LEFT THEN
                IF Len(e1.preescape) = 0 THEN restore(e1)
                ELSE LET lp == IF e1.linepos < 0 THEN Len(e1.preescape)
                               ELSE e1.linepos
                     IN  IF lp > 0
                         THEN restore([echo(e1, e1.output) EXCEPT
                                         !.linepos = lp - 1])
                         ELSE restore([e1 EXCEPT !.linepos = lp])
            ELSE IF ch = TILDE THEN restore(e1)
            ELSE [e1 EXCEPT !.output = e1.preescape \o e1.output,
                            !.preescape = <<>>]
        ELSE e1

\* The per-byte dispatch of TTY.run in Line and Frame mode.
InEscape(e) == Len(e.output) > 0 /\ e.output[1] = ESC

\* The dispatch as it would be if it tested preescape.
dispatchOnPreescape(e, ch) ==
    IF Len(e.preescape) > 0 THEN lineesc(e, ch) ELSE linechar(e, ch)

dispatch(e, ch) == IF InEscape(e) THEN lineesc(e, ch) ELSE linechar(e, ch)

\* ------------------------------------------- the console seen as a terminal
\* The sink behind t.screen, read as a one-row terminal: a printable byte
\* overwrites the cell under the cursor and advances, BS and ESC [ D move the
\* cursor one cell left, ESC [ C one cell right, CR goes to column 0, LF
\* starts a fresh row.  Any other byte is ignored.
TermPut(t, b) ==
    IF b = BS THEN [t EXCEPT !.col = IF @ > 0 THEN @ - 1 ELSE 0]
    ELSE IF b = CR THEN [t EXCEPT !.col = 0]
    ELSE IF b = LF THEN [t EXCEPT !.row = <<>>]
    ELSE IF b >= SP /\ b < DEL THEN
        [row |-> IF t.col < Len(t.row)
                 THEN [t.row EXCEPT ![t.col + 1] = b]
                 ELSE t.row \o Rep(SP, t.col - Len(t.row)) \o <<b>>,
         col |-> t.col + 1]
    ELSE t

RECURSIVE TermWrite(_, _)
TermWrite(t, s) ==
    IF s = <<>> THEN t
    ELSE IF Len(s) >= 3 /\ Take(s, 3) = <<ESC, LBRACK, LEFT>>
    THEN TermWrite([t EXCEPT !.col = IF @ > 0 THEN @ - 1 ELSE 0], Drop(s, 3))
    ELSE IF Len(s) >= 3 /\ Take(s, 3) = <<ESC, LBRACK, RIGHT>>
    THEN TermWrite([t EXCEPT !.col = @ + 1], Drop(s, 3))
    ELSE TermWrite(TermPut(t, Head(s)), Tail(s))

RECURSIVE Trim(_)
Trim(s) == IF s # <<>> /\ s[Len(s)] = SP THEN Trim(Take(s, Len(s) - 1)) ELSE s

\* ------------------------------------------------------------ observation
\* The input so far is made of printable bytes, BS, DEL, CR, LF and complete
\* ESC [ A/B/C/D sequences ("ok"), is inside such a sequence ("e1", "e2"),
\* or holds something else ("bad").
CleanStep(c, b) ==
    IF c = "ok" THEN
        IF (b >= SP /\ b <= DEL) \/ b \in {BS, CR, LF} THEN "ok"
        ELSE IF b = ESC THEN "e1" ELSE "bad"
    ELSE IF c = "e1" THEN (IF b = LBRACK THEN "e2" ELSE "bad")
    ELSE IF c = "e2" THEN (IF b \in {UP, DOWN, RIGHT, LEFT} THEN "ok" ELSE "bad")
    ELSE "bad"

\* How much of ESC [ A the input ends with.
UpStep(u, b) ==
    IF b = ESC THEN 1
    ELSE IF u = 1 /\ b = LBRACK THEN 2
    ELSE IF u = 2 /\ b = UP THEN 3
    ELSE 0

\* The CSI sequence the input is in: the in-flight line and the cursor when
\* its ESC arrived, whether the input was outside any sequence then (rest),
\* and the bytes of the sequence so far (ESC, '[', then parameter and
\* intermediate bytes).  NoHeld outside a sequence; ab then tells that an
\* ESC followed by a printable byte other than '[' was the last thing typed
\* before the printable bytes that followed, if any.
NoHeld == [line |-> <<>>, pos |-> -1, rest |-> TRUE, seq |-> <<>>,
           ab |-> FALSE]

HeldStep(h, b) ==
    IF b = ESC
    THEN [line |-> preescape \o output, pos |-> linepos,
          rest |-> h.seq = <<>>, seq |-> <<ESC>>, ab |-> FALSE]
    ELSE IF h.seq = <<ESC>> /\ b = LBRACK THEN [h EXCEPT !.seq = Append(@, b)]
    ELSE IF Len(h.seq) >= 2 /\ b >= SP /\ b < AT
    THEN [h EXCEPT !.seq = Append(@, b)]
    ELSE [NoHeld EXCEPT !.ab = /\ b >= SP /\ b <= TILDE
                               /\ \/ h.seq = <<ESC>> /\ h.rest
                                  \/ h.ab]

\* The final bytes lineesc knows.
KnownFinals == {UP, DOWN, RIGHT, LEFT, TILDE}

\* The bytes of the last CSI sequence that completed with an unknown final
\* byte, while only printable bytes have followed it.
KeptStep(k, h, b) ==
    IF Len(h.seq) >= 2 /\ b >= AT /\ b <= TILDE /\ b \notin KnownFinals
    THEN Append(h.seq, b)
    ELSE IF b >= SP /\ b <= TILDE THEN k
    ELSE <<>>

\* -------------------------------------------------- setters and regions
Setters == 1..NSetters

\* A setter that is not inside a call.
NoOp == [field |-> "none", val |-> "nil"]

\* rect{x, y, width, height}
Rect(x, y, w, h) == [x |-> x, y |-> y, width |-> w, height |-> h]

\* The TTY has no region.
NoRect == Rect(0, 0, 0, 0)

\* ------------------------------------------------------- the constructors
InitCommon ==
    /\ nin = 0 /\ conerr = NoErr /\ row = <<>> /\ col = 0 /\ sinkok = TRUE
    /\ next = <<>> /\ closed = FALSE /\ partial = NoChunk /\ error = NoErr
    /\ buffer = Rep(0, BufLen)
    /\ output = <<>> /\ last = <<>> /\ preescape = <<>> /\ linepos = -1
    /\ pc = "read" /\ n = 0 /\ i = 0 /\ sendq = <<>>
    /\ wrote = <<>> /\ src = <<>> /\ got = <<>>
    /\ ret = [who |-> 0, n |-> 0, err |-> NoErr]
    /\ powner = 0 /\ pshort = FALSE /\ clean = "ok" /\ upseq = 0
    /\ held = NoHeld /\ kept = <<>>
    /\ wcalls = 0 /\ wfail = FALSE
    /\ rop = "new" /\ want = [x |-> -1, y |-> -1, w |-> -1, h |-> -1]
    /\ drawn = <<>>
    /\ holder = 0 /\ yielded = FALSE
    /\ spos = [s \in Setters |-> "idle"]
    /\ sop = [s \in Setters |-> NoOp]
    /\ tok = [s \in Setters |-> FALSE]
    /\ nset = 0
    /\ scrw = "new" /\ sinkerr = FALSE
    /\ wret = [n |-> 0, err |-> NoErr]

\* NewTTY: echo is on when the console is also a writer.
NewTTY ==
    /\ InitCommon
    /\ mode = Line /\ bsize = DefaultLineBufferSize
    /\ ncap = ReadBufferLength
    /\ screen \in {"console", "nil"}
    /\ content = NoRect /\ border = "nil"

\* NewRawTTY
NewRawTTY ==
    /\ InitCommon
    /\ mode = Raw /\ bsize = DefaultRawBufferSize
    /\ ncap = ReadBufferLength
    /\ screen = "nil"
    /\ content = NoRect /\ border = "nil"

\* NewFrameTTY: an unbuffered channel, echo on the console, and a first
\* region NewRegion(80, 24, 0, 0).
NewFrameTTY ==
    /\ InitCommon
    /\ mode = Frame /\ bsize = DefaultFrameBufferSize
    /\ ncap = 0
    /\ screen = "console"
    /\ content = Rect(0, 0, FrameWidth, FrameHeight) /\ border = "nil"

\* ------------------------------------------------ the processing task, run
Alive == pc # "panic"

\* The read as it would be if the task did not wait for its pending push.
ConsoleReadEarly(d) ==
    /\ pc = "read" /\ holder = 0
    /\ Len(d) <= bsize
    /\ buffer' = d \o Drop(buffer, Len(d))
    /\ n' = Len(d) /\ i' = 1 /\ pc' = "disp"
    /\ nin' = nin + 1
    /\ src' = IF mode = Raw THEN src \o d ELSE src
    /\ yielded' = FALSE
    /\ UNCHANGED <<conerr, row, col, sinkok, screen, next, closed, partial,
                   error, mode, bsize, output, last, preescape, linepos, ncap,
                   sendq, wrote, got, ret, powner, pshort, clean, upseq, held, kept,
                   wcalls, wfail, holder, spos, sop, tok, nset, region,
                   caller>>

\* t.yield(); n, err := t.console.Read(t.buffer) with err == nil.  The task
\* is then at the second t.yield().
ConsoleRead(d) ==
    /\ pc = "read" /\ sendq = <<>> /\ holder = 0
    /\ Len(d) <= bsize
    /\ buffer' = d \o Drop(buffer, Len(d))
    /\ n' = Len(d) /\ i' = 1 /\ pc' = "disp"
    /\ nin' = nin + 1
    /\ src' = IF mode = Raw THEN src \o d ELSE src
    /\ yielded' = FALSE
    /\ UNCHANGED <<conerr, row, col, sinkok, screen, next, closed, partial,
                   error, mode, bsize, output, last, preescape, linepos, ncap,
                   sendq, wrote, got, ret, powner, pshort, clean, upseq, held, kept,
                   wcalls, wfail, holder, spos, sop, tok, nset, region, caller>>

\* The engine fields and the pushes after a handler returned e.
Apply(e) ==
    /\ output' = e.output /\ preescape' = e.preescape /\ last' = e.last
    /\ linepos' = e.linepos /\ screen' = e.screen
    /\ wrote' = e.wrote /\ wcalls' = e.calls /\ wfail' = e.failed
    /\ LET t == TermWrite([row |-> row, col |-> col], e.wrote)
       IN  row' = t.row /\ col' = t.col
    /\ sendq' = [j \in 1..Len(e.sent) |-> OwnChunk(e.sent[j])]
    /\ scrw' = IF e.screen # screen THEN "task" ELSE scrw
    /\ sinkerr' = (sinkerr \/ e.failed)
    /\ UNCHANGED wret

\* console.Read failed with err: t.emit(), then (Close) t.error = err and the
\* deferred close(t.next).
ConsoleFail(err) ==
    /\ pc = "read" /\ sendq = <<>> /\ holder = 0
    /\ conerr' = err
    /\ Apply(emit(Engine))
    /\ pc' = "closing"
    /\ UNCHANGED <<nin, sinkok, next, closed, partial, error, mode, bsize,
                   buffer, ncap, n, i, src, got, ret, powner, pshort, clean,
                   upseq, held, kept, sync, region>>

\* Close as it would be without t.error = err.
CloseNoError ==
    /\ pc = "closing" /\ sendq = <<>>
    /\ closed' = TRUE
    /\ pc' = "done"
    /\ UNCHANGED <<env, screen, next, partial, error, mode, bsize, buffer,
                   output, last, preescape, linepos, ncap, n, i, sendq, obs,
                   sync, region, caller>>

Close ==
    /\ pc = "closing" /\ sendq = <<>>
    /\ error' = conerr
    /\ closed' = TRUE
    /\ pc' = "done"
    /\ UNCHANGED <<env, screen, next, partial, mode, bsize, buffer, output,
                   last, preescape, linepos, ncap, n, i, sendq, obs, sync,
                   region, caller>>

\* case Raw as it would be if it flushed the pending line first.
RawPushEmit ==
    /\ pc = "disp" /\ mode = Raw /\ holder = 0
    /\ Apply(emit(Engine))
    /\ pc' = "read"
    /\ yielded' = FALSE
    /\ UNCHANGED <<nin, conerr, sinkok, next, closed, partial, error, mode,
                   bsize, buffer, ncap, n, i, src, got, ret, powner, pshort,
                   clean, upseq, held, kept, holder, spos, sop, tok, nset, region>>

\* case Raw: t.next <- t.buffer[:n]
RawPush ==
    /\ pc = "disp" /\ mode = Raw /\ holder = 0
    /\ sendq' = <<BufChunk(n)>>
    /\ pc' = "read"
    /\ yielded' = FALSE
    /\ wrote' = <<>> /\ wcalls' = 0 /\ wfail' = FALSE
    /\ UNCHANGED <<env, tty, n, i, src, got, ret, powner, pshort, clean,
                   upseq, held, kept, holder, spos, sop, tok, nset, region, caller>>

\* case Line, Frame: one iteration of the loop over t.buffer[:n]
LineByte ==
    /\ pc = "disp" /\ mode \in {Line, Frame} /\ sendq = <<>> /\ holder = 0
    /\ LET ch == buffer[i]
           e == dispatch(Engine, ch)
       IN  IF e.fault
           THEN /\ pc' = "panic"
                /\ UNCHANGED <<env, tty, n, i, sendq, obs, sync, region,
                               caller>>
           ELSE /\ Apply(e)
                /\ i' = i + 1
                /\ pc' = IF i = n THEN "read" ELSE "disp"
                /\ clean' = CleanStep(clean, ch)
                /\ upseq' = UpStep(upseq, ch)
                /\ held' = HeldStep(held, ch)
                /\ kept' = KeptStep(kept, held, ch)
                /\ yielded' = FALSE
                /\ UNCHANGED <<nin, conerr, sinkok, next, closed, partial,
                               error, mode, bsize, buffer, ncap, n, src, got,
                               ret, powner, pshort, holder, spos, sop, tok,
                               nset, region>>

\* A pending t.next <- chunk completes when the channel has room.
Send ==
    /\ Alive /\ sendq # <<>>
    /\ Len(next) < ncap
    /\ next' = Append(next, Head(sendq))
    /\ sendq' = Tail(sendq)
    /\ UNCHANGED <<env, screen, closed, partial, error, mode, bsize, buffer,
                   output, last, preescape, linepos, ncap, pc, n, i, obs,
                   sync, region, caller>>

\* ---------------------------------------------------------------- TTY.Read
\* Where a receive on t.next finds its value: in the channel's buffer, or,
\* when the buffer is empty and cannot hold the value (an unbuffered
\* channel), in the hands of the task blocked in its send.
Source ==
    IF next # <<>> THEN "next"
    ELSE IF ncap = 0 /\ sendq # <<>> THEN "sendq"
    ELSE "none"

\* Read as it would be without t.partial = t.partial[n:].
ReadKeepPartial(c, k) ==
    /\ Alive
    /\ IF partial.n = 0 /\ Source = "none"
       THEN /\ closed
            /\ ret' = [who |-> c, n |-> 0, err |-> error]
            /\ UNCHANGED <<partial, next, sendq, got, powner, pshort>>
       ELSE LET fresh == partial.n = 0
                p == IF ~fresh THEN partial
                     ELSE IF Source = "next" THEN Head(next) ELSE Head(sendq)
                m == Min(k, p.n)
            IN  /\ next' = IF fresh /\ Source = "next" THEN Tail(next)
                           ELSE next
                /\ sendq' = IF fresh /\ Source = "sendq" THEN Tail(sendq)
                            ELSE sendq
                /\ partial' = p
                /\ ret' = [who |-> c, n |-> m, err |-> NoErr]
                /\ got' = IF mode = Raw THEN got \o Take(Bytes(p), m) ELSE got
                /\ powner' = IF fresh THEN c ELSE powner
                /\ pshort' = IF fresh THEN k < p.n ELSE pshort
    /\ UNCHANGED <<env, screen, closed, error, mode, bsize, buffer, output,
                   last, preescape, linepos, ncap, pc, n, i, wrote, src,
                   clean, upseq, held, kept, wcalls, wfail, sync, region, caller>>

\* Reader c calls Read with a destination of k bytes.  The call holds t.lock
\* from entry to return, so it is one step; it blocks (is not enabled) while
\* partial is empty and the channel is open and has nothing to receive.
Read(c, k) ==
    /\ Alive
    /\ IF partial.n = 0 /\ Source = "none"
       THEN /\ closed
            /\ ret' = [who |-> c, n |-> 0, err |-> error]
            /\ UNCHANGED <<partial, next, sendq, got, powner, pshort>>
       ELSE LET fresh == partial.n = 0
                p == IF ~fresh THEN partial
                     ELSE IF Source = "next" THEN Head(next) ELSE Head(sendq)
                m == Min(k, p.n)
            IN  /\ next' = IF fresh /\ Source = "next" THEN Tail(next)
                           ELSE next
                /\ sendq' = IF fresh /\ Source = "sendq" THEN Tail(sendq)
                            ELSE sendq
                /\ partial' = Slice(p, m)
                /\ ret' = [who |-> c, n |-> m, err |-> NoErr]
                /\ got' = IF mode = Raw THEN got \o Take(Bytes(p), m) ELSE got
                /\ powner' = IF fresh THEN c ELSE powner
                /\ pshort' = IF fresh THEN k < p.n ELSE pshort
    /\ UNCHANGED <<env, screen, closed, error, mode, bsize, buffer, output,
                   last, preescape, linepos, ncap, pc, n, i, wrote, src,
                   clean, upseq, held, kept, wcalls, wfail, sync, region, caller>>

\* -------------------------------------------------------------- the setters
\* yield as it would be if the task took a token wherever it is, also after
\* it returned and while it is blocked in a push.
AtYieldAnywhere == ~yielded /\ holder = 0

\* The task is inside one of the two t.yield() calls of run's loop: before
\* the console read, or after it and before the first byte is handled.
AtYield ==
    /\ ~yielded /\ holder = 0 /\ sendq = <<>>
    /\ (pc = "read" \/ (pc = "disp" /\ i = 1))

\* yield as it would be without <-done: the task takes the token and goes on.
RendezvousNoWait(s, op) ==
    /\ AtYield /\ spos[s] = "idle" /\ nset < MaxSets
    /\ spos' = [spos EXCEPT ![s] = "write"]
    /\ sop' = [sop EXCEPT ![s] = op]
    /\ tok' = [tok EXCEPT ![s] = FALSE]
    /\ yielded' = TRUE
    /\ nset' = nset + 1
    /\ UNCHANGED <<env, tty, task, obs, holder, region, caller>>

\* The rendezvous on the unbuffered t.update: setter s sends its lock channel
\* (t.update <- lock) and yield receives it (done := <-t.update).  The task
\* then waits in <-done.  op is the call: SetEcho, SetLineBuffer or SetMode
\* and its argument.
Rendezvous(s, op) ==
    /\ AtYield /\ spos[s] = "idle" /\ nset < MaxSets
    /\ spos' = [spos EXCEPT ![s] = "write"]
    /\ sop' = [sop EXCEPT ![s] = op]
    /\ tok' = [tok EXCEPT ![s] = FALSE]
    /\ holder' = s
    /\ nset' = nset + 1
    /\ UNCHANGED <<env, tty, task, obs, yielded, region, caller>>

\* t.screen = echo, t.bsize = size or t.mode = mode
SetWrite(s) ==
    /\ spos[s] = "write"
    /\ screen' = IF sop[s].field = "screen" THEN sop[s].val ELSE screen
    /\ bsize' = IF sop[s].field = "bsize" THEN sop[s].val ELSE bsize
    /\ mode' = IF sop[s].field = "mode" THEN sop[s].val ELSE mode
    /\ scrw' = IF sop[s].field = "screen" THEN "setter" ELSE scrw
    /\ spos' = [spos EXCEPT ![s] = "release"]
    /\ UNCHANGED <<env, next, closed, partial, error, buffer, output, last,
                   preescape, linepos, ncap, task, obs, holder, yielded, sop,
                   tok, nset, region, sinkerr, wret>>

\* lock <- true (the channel has room for one value), and the setter returns.
Release(s) ==
    /\ spos[s] = "release"
    /\ tok' = [tok EXCEPT ![s] = TRUE]
    /\ spos' = [spos EXCEPT ![s] = "idle"]
    /\ sop' = [sop EXCEPT ![s] = NoOp]
    /\ UNCHANGED <<env, tty, task, obs, holder, yielded, nset, region, caller>>

\* <-done returns in yield, and yield returns.
Resume ==
    /\ holder # 0 /\ tok[holder]
    /\ tok' = [tok EXCEPT ![holder] = FALSE]
    /\ holder' = 0
    /\ yielded' = TRUE
    /\ UNCHANGED <<env, tty, task, obs, spos, sop, nset, region, caller>>

\* ------------------------------------------------------------ the regions
\* rect.grow
grow(r, dw, dh) == Rect(r.x - dw, r.y - dh, r.width + 2 * dw, r.height + 2 * dh)

\* SetBorder as it would be without the adjustment of the content rectangle.
SetBorderOnly(style) ==
    /\ border' = style
    /\ content' = content
    /\ rop' = "SetBorder" /\ drawn' = <<>>
    /\ UNCHANGED <<env, tty, task, obs, sync, want, caller>>

\* Region.SetBorder
SetBorder(style) ==
    /\ LET c1 == IF border = "nil" THEN grow(content, -1, -1) ELSE content
       IN  content' = IF style = "nil" THEN grow(c1, 1, 1) ELSE c1
    /\ border' = style
    /\ rop' = "SetBorder" /\ drawn' = <<>>
    /\ UNCHANGED <<env, tty, task, obs, sync, want, caller>>

\* Region.SetPos
SetPos(x, y) ==
    /\ content' = IF border # "nil"
                  THEN [content EXCEPT !.x = x + 1, !.y = y + 1]
                  ELSE [content EXCEPT !.x = x, !.y = y]
    /\ rop' = "SetPos" /\ drawn' = <<>>
    /\ want' = [want EXCEPT !.x = x, !.y = y]
    /\ UNCHANGED <<env, tty, task, obs, sync, border, caller>>

\* Region.SetSize
SetSize(width, height) ==
    /\ LET w1 == IF border # "nil" THEN width - 2 ELSE width
           h1 == IF border # "nil" THEN height - 2 ELSE height
       IN  content' = [content EXCEPT !.width = IF w1 < 0 THEN 0 ELSE w1,
                                      !.height = IF h1 < 0 THEN 0 ELSE h1]
    /\ rop' = "SetSize" /\ drawn' = <<>>
    /\ want' = [want EXCEPT !.w = width, !.h = height]
    /\ UNCHANGED <<env, tty, task, obs, sync, border, caller>>

\* var SimpleBorder, var FancyBorder
SimpleBorder == <<45, 124, 44, 43, 46, 43, 43, 43, 96, 43, 39>>

FancyBorder == <<196, 179, 218, 194, 191, 195, 197, 180, 192, 193, 217>>

\* r.border[k] of a region whose border is not nil
BorderByte(style, k) ==
    IF style = "Simple" THEN SimpleBorder[k + 1] ELSE FancyBorder[k + 1]

\* The verb %d of fmt.Fprintf for a number that is not negative.
RECURSIVE Dec(_)
Dec(k) == IF k < 10 THEN <<ZERO + k>>
          ELSE Dec(k \div 10) \o <<ZERO + (k % 10)>>

\* TTY.SetCursor(x, y): fmt.Fprintf(t.screen, "\x1b[%d;%dH", y+1, x+1), whose
\* error is dropped.
setCursor(e, x, y) ==
    IF e.screen = "nil" THEN e
    ELSE IF e.sinkok
    THEN [e EXCEPT !.wrote = @ \o <<ESC, LBRACK>> \o Dec(y + 1) \o <<SEMI>>
                                 \o Dec(x + 1) \o <<CUP>>,
                   !.calls = @ + 1]
    ELSE [e EXCEPT !.calls = @ + 1, !.failed = TRUE]

\* Region.Draw, the body of the loop before the writes: what line holds for
\* this row.  Rows 2 to height-2 leave it as the row before left it.
DrawLine(line, r, rect) ==
    IF r < 2 \/ r = rect.height - 1 THEN
        LET w == Len(line)
            bordered == border # "nil"
            first == IF r = 0 THEN borderTopLeft
                     ELSE IF r = rect.height - 1 THEN borderBottomLeft
                     ELSE borderVertical
            final == IF r = 0 THEN borderTopRight
                     ELSE IF r = rect.height - 1 THEN borderBottomRight
                     ELSE borderVertical
            fill == IF bordered /\ (r = 0 \/ r = rect.height - 1)
                    THEN BorderByte(border, borderHorizontal) ELSE SP
            l1 == IF bordered
                  THEN [[line EXCEPT ![1] = BorderByte(border, first)]
                          EXCEPT ![w] = BorderByte(border, final)]
                  ELSE line
            start == IF bordered THEN 1 ELSE 0
            end == IF bordered THEN w - 1 ELSE w
        IN  [j \in 1..w |-> IF start < j /\ j <= end THEN fill ELSE l1[j]]
    ELSE line

\* Region.Draw, the loop from row r on.
RECURSIVE DrawRows(_, _, _, _)
DrawRows(e, line, r, rect) ==
    IF e.fault \/ r >= rect.height THEN e
    ELSE IF border # "nil" /\ Len(line) = 0 THEN Fault(e)
    ELSE LET l1 == DrawLine(line, r, rect)
         IN  DrawRows(echo(setCursor(e, rect.x, rect.y + r), l1), l1, r + 1,
                      rect)

\* Region.Draw, called by a consumer.  An index out of range in line[0]
\* panics, which ends the program.
Draw ==
    /\ Alive
    /\ LET rect == IF border # "nil" THEN grow(content, 1, 1) ELSE content
           e1 == DrawRows(Engine, Rep(0, rect.width), 0, rect)
           e == setCursor(e1, content.x, content.y)
       IN  IF e1.fault
           THEN /\ pc' = "panic"
                /\ drawn' = e1.wrote
                /\ UNCHANGED <<screen, scrw, sinkerr, n, i, sendq>>
           ELSE /\ drawn' = e.wrote
                /\ screen' = e.screen
                /\ scrw' = IF e.screen # screen THEN "caller" ELSE scrw
                /\ sinkerr' = (sinkerr \/ e.failed)
                /\ UNCHANGED task
    /\ rop' = "Draw"
    /\ UNCHANGED <<env, next, closed, partial, error, mode, bsize, buffer,
                   output, last, preescape, linepos, ncap, obs, sync,
                   content, border, want, wret>>

\* ------------------------------------------- caller-side use of the sink
EOFErr == "EOF"

\* CSI 2 J
ClearSeq == <<ESC, LBRACK, ZERO + 2, UP + 9>>

\* The environment: the sink starts or stops accepting writes.
SinkSet(b) ==
    /\ sinkok # b
    /\ sinkok' = b
    /\ UNCHANGED <<nin, conerr, row, col, tty, task, obs, sync, region,
                   caller>>

\* TTY.Write(b) with len(b) = k, called by a consumer.
Write(k) ==
    /\ Alive
    /\ wret' = IF screen = "nil" THEN [n |-> 0, err |-> EOFErr]
               ELSE IF sinkok THEN [n |-> k, err |-> NoErr]
               ELSE [n |-> 0, err |-> "EIO"]
    /\ sinkerr' = (sinkerr \/ (screen # "nil" /\ ~sinkok))
    /\ UNCHANGED <<env, tty, task, obs, sync, region, scrw>>

\* TTY.Clear, called by a consumer: t.echo of CSI 2 J outside the task.
Clear ==
    /\ Alive
    /\ LET e == echo(Engine, ClearSeq)
       IN  /\ screen' = e.screen
           /\ scrw' = IF e.screen # screen THEN "caller" ELSE scrw
           /\ sinkerr' = (sinkerr \/ e.failed)
    /\ UNCHANGED <<env, next, closed, partial, error, mode, bsize, buffer,
                   output, last, preescape, linepos, ncap, task, obs, sync,
                   region, wret>>

\* TTY.SetCursor, called by a consumer: fmt.Fprintf on t.screen, whose error
\* is dropped.
SetCursor ==
    /\ Alive
    /\ sinkerr' = (sinkerr \/ (screen # "nil" /\ ~sinkok))
    /\ UNCHANGED <<env, tty, task, obs, sync, region, scrw, wret>>

\* ------------------------------------------------------ the specifications
Readers == 1..NReaders
DstSizes == 1..MaxDst

KeyUp == <<ESC, LBRACK, UP>>
KeyDown == <<ESC, LBRACK, DOWN>>
KeyRight == <<ESC, LBRACK, RIGHT>>
KeyLeft == <<ESC, LBRACK, LEFT>>

\* What one console read can return in a run of SpecLine: a typed byte or
\* the three bytes of an arrow key.
LineKeys == {<<LOWER>>, <<ZERO>>, <<TAB>>, <<CR>>, <<LF>>, <<ETX>>, <<BS>>,
             <<DEL>>, <<ESC>>, <<LBRACK>>, KeyUp, KeyLeft}

\* What one console read can return in a run of SpecKeys.
EditKeys == {<<LOWER>>, <<CR>>, <<ESC>>, <<LBRACK>>, KeyUp, KeyLeft}

\* The bytes of a Raw mode run.
RawBytes == {LOWER, LOWER + 1}

\* Line mode without consumers: nothing is taken off t.next, which stays
\* far from full (ReadBufferLength), so the task never waits for a consumer.
NextLine ==
    \/ \E d \in LineKeys : nin < MaxLineReads /\ ConsoleRead(d)
    \/ \E err \in Errors : ConsoleFail(err)
    \/ Close
    \/ LineByte
    \/ Send

SpecLine == NewTTY /\ [][NextLine]_vars

NextKeys ==
    \/ \E d \in EditKeys : nin < MaxKeyReads /\ ConsoleRead(d)
    \/ \E err \in Errors : ConsoleFail(err)
    \/ Close
    \/ LineByte
    \/ Send

SpecKeys == NewTTY /\ [][NextKeys]_vars

\* What one console read can return in a run of SpecReaders.
ReaderKeys == {<<LOWER>>, <<CR>>}

\* The calls a setter can make.
SetOps == {[field |-> "mode", val |-> Raw], [field |-> "mode", val |-> Line],
           [field |-> "screen", val |-> "nil"],
           [field |-> "screen", val |-> "console"],
           [field |-> "bsize", val |-> DefaultRawBufferSize]}

\* What one console read can return in a run of SpecSet.
SetKeys == {<<LOWER>>, <<CR>>, KeyLeft}

\* A TTY made by NewTTY whose mode, echo and buffer size are changed by
\* NSetters concurrent callers.  No consumer: t.next stays far from full.
NextSet ==
    \/ \E d \in SetKeys : nin < MaxSetReads /\ ConsoleRead(d)
    \/ \E err \in Errors : ConsoleFail(err)
    \/ Close
    \/ RawPush
    \/ LineByte
    \/ Send
    \/ \E s \in Setters, op \in SetOps : Rendezvous(s, op)
    \/ \E s \in Setters : SetWrite(s)
    \/ \E s \in Setters : Release(s)
    \/ Resume

SpecSet == NewTTY /\ [][NextSet]_vars

\* What one console read can return in a run of SpecEcho.
EchoKeys == {<<LOWER>>, <<CR>>}

\* Line mode over a sink that can fail, with a caller that uses Write, Clear
\* and SetCursor.  No consumer of chunks: t.next stays far from full.
NextEcho ==
    \/ \E d \in EchoKeys : nin < MaxEchoReads /\ ConsoleRead(d)
    \/ \E err \in Errors : ConsoleFail(err)
    \/ Close
    \/ LineByte
    \/ Send
    \/ \E b \in BOOLEAN : SinkSet(b)
    \/ \E k \in DstSizes : Write(k)
    \/ Clear
    \/ SetCursor

SpecEcho == NewTTY /\ [][NextEcho]_vars

\* What one console read can return in a run of SpecFrame.
FrameKeys == {<<LOWER>>, <<CR>>, <<LOWER, CR>>, <<CR, LOWER>>}

\* A TTY made by NewFrameTTY with NReaders consumers.  Its channel has no
\* buffer: a push completes in the Read step that receives it.
NextFrame ==
    \/ \E d \in FrameKeys : nin < MaxFrameReads /\ ConsoleRead(d)
    \/ \E err \in Errors : ConsoleFail(err)
    \/ Close
    \/ LineByte
    \/ \E c \in Readers, k \in DstSizes : Read(c, k)

SpecFrame == NewFrameTTY /\ [][NextFrame]_vars

\* What one console read can return in a run of SpecTerm.
TermKeys == {<<LOWER>>, <<ESC>>, KeyLeft, KeyUp}

\* The steps of the processing task.
NextTask ==
    \/ \E d \in TermKeys : nin < MaxTermReads /\ ConsoleRead(d)
    \/ \E err \in Errors : ConsoleFail(err)
    \/ Close
    \/ LineByte
    \/ Send

\* The steps of the consumer.
NextConsumer == \E k \in DstSizes : Read(1, k)

NextTerm == NextTask \/ NextConsumer

\* Line mode with one consumer that keeps calling Read, over a console that
\* delivers at most MaxTermReads reads and then fails; the task and the
\* consumer are scheduled fairly.
SpecTerm ==
    /\ NewTTY /\ [][NextTerm]_vars
    /\ WF_vars(NextTask) /\ WF_vars(NextConsumer)

\* The border styles: none, SimpleBorder, FancyBorder.
Styles == {"nil", "Simple", "Fancy"}

\* The region of a Frame TTY under any sequence of SetBorder, SetPos and
\* SetSize calls.
NextRegion ==
    \/ \E style \in Styles : SetBorder(style)
    \/ \E x, y \in 0..MaxPos : SetPos(x, y)
    \/ \E w, h \in 0..MaxSize : SetSize(w, h)
    \/ Draw
    \/ \E b \in BOOLEAN : SinkSet(b)

SpecRegion == NewFrameTTY /\ [][NextRegion]_vars

\* Raw mode with one consumer.
NextRaw ==
    \/ \E d \in Data(RawBytes, MaxRead) : nin < MaxRawReads /\ ConsoleRead(d)
    \/ \E err \in Errors : ConsoleFail(err)
    \/ Close
    \/ RawPush
    \/ Send
    \/ \E k \in DstSizes : Read(1, k)

SpecRaw == NewRawTTY /\ [][NextRaw]_vars

\* Line mode with NReaders consumers calling Read concurrently.
NextReaders ==
    \/ \E d \in ReaderKeys : nin < MaxReaderReads /\ ConsoleRead(d)
    \/ \E err \in Errors : ConsoleFail(err)
    \/ Close
    \/ LineByte
    \/ Send
    \/ \E c \in Readers, k \in DstSizes : Read(c, k)

SpecReaders == NewTTY /\ [][NextReaders]_vars

\* What one console read can return in a run of SpecCsi: typed bytes, among
\* them the final byte of a CSI sequence, and the left and right arrows.
CsiKeys == {<<LOWER>>, <<ESC>>, <<LBRACK>>, <<TILDE>>, <<CR>>, KeyLeft,
            KeyRight}

NextCsi ==
    \/ \E d \in CsiKeys : nin < MaxCsiReads /\ ConsoleRead(d)
    \/ \E err \in Errors : ConsoleFail(err)
    \/ Close
    \/ LineByte
    \/ Send

SpecCsi == NewTTY /\ [][NextCsi]_vars

\* What one console read can return in a run of SpecArrows: the four arrow
\* keys, and the pieces of a sequence with a parameter byte.
ArrowKeys == {<<LOWER>>, <<ESC>>, <<ESC, LBRACK>>, <<ZERO>>, <<TILDE>>,
              KeyUp, KeyDown, KeyLeft, KeyRight}

NextArrows ==
    \/ \E d \in ArrowKeys : nin < MaxArrowReads /\ ConsoleRead(d)
    \/ \E err \in Errors : ConsoleFail(err)
    \/ Close
    \/ LineByte
    \/ Send

SpecArrows == NewTTY /\ [][NextArrows]_vars

\* What one console read can return in a run of SpecSink.
SinkKeys == {<<LOWER>>, <<CR>>, <<BS>>, <<ESC>>, KeyUp, KeyLeft}

\* Line editing over a sink that can start and stop accepting writes.
NextSink ==
    \/ \E d \in SinkKeys : nin < MaxSinkReads /\ ConsoleRead(d)
    \/ \E err \in Errors : ConsoleFail(err)
    \/ Close
    \/ LineByte
    \/ Send
    \/ \E b \in BOOLEAN : SinkSet(b)

SpecSink == NewTTY /\ [][NextSink]_vars

\* What one console read can return in a run of SpecStall.
StallKeys == {<<LOWER>>, <<CR>>}

\* A TTY made by NewFrameTTY, whose channel has no buffer, with NSetters
\* callers of the setters and no consumer: the first push of the task never
\* completes.
NextStall ==
    \/ \E d \in StallKeys : nin < MaxStallReads /\ ConsoleRead(d)
    \/ \E err \in Errors : ConsoleFail(err)
    \/ Close
    \/ RawPush
    \/ LineByte
    \/ \E s \in Setters, op \in SetOps : Rendezvous(s, op)
    \/ \E s \in Setters : SetWrite(s)
    \/ \E s \in Setters : Release(s)
    \/ Resume

SpecStall == NewFrameTTY /\ [][NextStall]_vars

\* ------------------------------------------------------------- properties
\* Every chunk the task has pushed or is pushing, oldest first.
Emitted == [j \in 1..(Len(next) + Len(sendq)) |->
              IF j <= Len(next) THEN next[j].b ELSE sendq[j - Len(next)].b]

Has(s, S) == \E j \in 1..Len(s) : s[j] \in S

Drained == next = <<>> /\ partial.n = 0

\* The task is in its read loop (it has neither failed nor faulted).
Running == pc \in {"read", "disp"}

\* C1. Raw mode byte conservation: the bytes Read has returned are a prefix of
\* the bytes the console delivered, and all of them once everything is
\* drained.
C1_ByteConservation ==
    /\ IsPrefix(got, src)
    /\ (closed /\ Drained) => got = src

\* C2. Line demarcation: no chunk holds a terminator (CR or LF) together
\* with any other byte, so every terminator is a chunk of its own.
C2_LineDemarcation ==
    \A j \in 1..Len(Emitted) :
        Has(Emitted[j], {CR, LF}) => Len(Emitted[j]) = 1

\* C3. A byte of the control emit set is a chunk of its own: no chunk holds
\* one together with any other byte.
C3_ControlAlone ==
    \A j \in 1..Len(Emitted) :
        Has(Emitted[j], CtlEmit) => Len(Emitted[j]) = 1

\* C4. History retention: once a line is in the history slot, the bytes
\* ESC [ A arriving at any point make the in-flight line equal to it.
C4_HistoryRetention ==
    (Running /\ upseq = 3 /\ last # <<>>) =>
        (output = last /\ preescape = <<>>)

\* C5. History admission: last is empty or begins with a byte >= 32, and a
\* terminated line (the chunk pushed before the terminator chunk, none for
\* an empty line) replaces last exactly when its first byte is >= 32.
LastAdmitted == last = <<>> \/ last[1] >= SP

TerminatorStep ==
    /\ pc = "disp" /\ sendq = <<>> /\ sendq' # <<>>
    /\ sendq'[Len(sendq')].b \in {<<CR>>, <<LF>>}

C5_HistoryAdmission ==
    /\ LastAdmitted
    /\ [][/\ LastAdmitted'
          /\ TerminatorStep =>
               LET line == IF Len(sendq') = 2 THEN sendq'[1].b ELSE <<>>
               IN  last' = IF line # <<>> /\ line[1] >= SP THEN line ELSE last
          /\ ~TerminatorStep => last' = last]_vars

C5_Witness ==
    /\ Len(next) = 4 /\ last = <<ZERO>>
    /\ next[1].b = <<ZERO>> /\ next[3].b = <<TAB>>

\* C6. Cursor invariant: linepos is -1 or an offset into output.
C6_Cursor == linepos = -1 \/ (0 <= linepos /\ linepos <= Len(output))

\* C7. The visible row stays in sync with the line: while the input is made
\* of printable bytes, BS, DEL, CR, LF and complete ESC [ A/B/C/D sequences,
\* the terminal's row is the line (trailing blanks aside) and its cursor is
\* at linepos, or at the end of the line when linepos is -1.
TheLine == IF clean = "ok" THEN output ELSE preescape

C7_InSync ==
    (Running /\ screen # "nil" /\ clean # "bad") =>
        /\ Trim(row) = Trim(TheLine)
        /\ col = IF linepos = -1 THEN Len(TheLine) ELSE linepos

\* C8. The console's error is surfaced after the drain: a Read returns an
\* error exactly when it finds the channel closed and empty and partial
\* empty, and the error is the one the console returned, never nil.
C8_ErrorAfterDrain ==
    [][\A k \in DstSizes :
          Read(1, k) =>
            IF closed /\ Drained
            THEN ret'.n = 0 /\ ret'.err = conerr /\ conerr # NoErr
            ELSE ret'.err = NoErr]_vars

C8_Witness == ret.err \in Errors /\ got # <<>>

\* C9. Flush on source failure: when console.Read fails the pending bytes,
\* preescape followed by output, are pushed as one chunk, nothing is echoed,
\* and the channel is closed only after that chunk is on it.
C9_FlushOnFailure ==
    [][/\ (pc = "read" /\ pc' = "closing") =>
             /\ sendq' = IF preescape \o output = <<>> THEN <<>>
                          ELSE <<OwnChunk(preescape \o output)>>
             /\ wrote' = <<>> /\ row' = row /\ col' = col
             /\ ~closed'
       /\ (closed' /\ ~closed) => sendq = <<>>]_vars

C9_Witness ==
    /\ closed /\ next # <<>>
    /\ next[Len(next)].b = <<LOWER, ESC, LBRACK>>

Current ==
    IF partial.n # 0 THEN partial
    ELSE IF next # <<>> THEN Head(next)
    ELSE NoChunk

\* C11. Single-consumer delivery: every Read returns bytes of one chunk only
\* (no more than what is left of the chunk it copies from), and the bytes
\* returned so far are the bytes of the chunks as the task pushed them, in
\* order (in Raw mode the chunks are the console reads, src).
C11_SingleConsumer ==
    [][\A k \in DstSizes :
          Read(1, k) =>
            /\ ret'.n <= Current.n
            /\ got' = Take(src, Len(got) + ret'.n)]_vars

\* The setters that hold the TTY's settings (between the rendezvous and the
\* end of their assignment).
Writing == {s \in Setters : spos[s] = "write"}

\* C12. Setter rendezvous: a setter assigns its field only while the task is
\* suspended in yield waiting for that setter's token, before the console
\* read or right after it; mode and bsize change in no other step, so never
\* between two bytes of one console read; no two setters are between their
\* rendezvous and their assignment at once.
C12_SetterExclusion ==
    /\ [](Cardinality(Writing) <= 1)
    /\ [][/\ \A s \in Setters :
               (spos[s] = "write" /\ spos'[s] = "release") =>
                   /\ holder = s /\ ~tok[s]
                   /\ sendq = <<>>
                   /\ (pc = "read" \/ (pc = "disp" /\ i = 1))
                   /\ UNCHANGED task
          /\ (mode' # mode \/ bsize' # bsize) =>
               \E s \in Setters : spos[s] = "write" /\ spos'[s] = "release"]_vars

C12_Witness ==
    /\ nset = 2 /\ mode = Raw /\ bsize = DefaultRawBufferSize
    /\ holder = 0 /\ pc = "disp"

C13_ScreenOwner == scrw \in {"new", "task", "setter"}

\* C14. Once a write on the sink has returned an error the sink is cleared,
\* and every TTY.Write after that returns (0, EOF).
C14_SinkCleared ==
    /\ [](sinkerr => screen = "nil")
    /\ [][(sinkerr /\ wret' # wret) => wret' = [n |-> 0, err |-> EOFErr]]_vars

\* The task handles one input byte in this step.
ByteStep == pc = "disp" /\ i' = i + 1

\* C15. Echo failure is absorbed: the step in which a write of the task
\* fails clears t.screen and makes no other write; with t.screen cleared a
\* byte is handled without any write on the sink; in both cases the task
\* stays in its loop.
C15_EchoAbsorbed ==
    [][ByteStep =>
          /\ wfail' => (screen' = "nil" /\ wcalls' = 1 /\ wrote' = <<>>)
          /\ screen = "nil" =>
                (wcalls' = 0 /\ screen' = "nil" /\ row' = row /\ col' = col)
          /\ pc' \in {"read", "disp"}]_vars

C15_Witness ==
    /\ scrw = "task" /\ screen = "nil" /\ ~sinkok
    /\ Len(next) = 2 /\ next[1].b = <<LOWER, LOWER>> /\ next[2].b = <<CR>>

\* C16. Frame-mode synchrony: the channel of a Frame TTY never holds a
\* chunk; the task reads the console or handles a byte only when every chunk
\* it pushed has been received, and a chunk leaves the task only in a Read
\* step that receives it.
C16_FrameSynchrony ==
    /\ [](next = <<>>)
    /\ [][/\ (nin' # nin \/ ByteStep) => sendq = <<>>
          /\ (sendq # <<>> /\ sendq' # sendq) =>
                /\ sendq' = Tail(sendq)
                /\ ret'.n > 0 /\ powner' = ret'.who
                /\ ret'.n <= Head(sendq).n]_vars

C16_Witness ==
    /\ ncap = 0 /\ pc = "disp" /\ i = 2
    /\ sendq = <<OwnChunk(<<CR>>)>>
    /\ ret.n = 1 /\ partial.n = 0 /\ nin = 2

\* C17. Termination: the task eventually stores the console's error, closes
\* the channel and terminates, and the consumer eventually has everything
\* and gets the error.
C17_Termination ==
    /\ <>(pc = "done" /\ closed /\ error = conerr /\ conerr # NoErr)
    /\ <>(Drained /\ sendq = <<>> /\ ret.err \in Errors)

\* The outer bounding rectangle of the region.
Outer == IF border # "nil" THEN grow(content, 1, 1) ELSE content

\* C19. A SetBorder call leaves the outer bounding rectangle as it was,
\* whatever the border before and after.
C19_OuterStable == [][rop' = "SetBorder" => Outer' = Outer]_vars

C19_Witness ==
    /\ rop = "SetBorder" /\ border = "Fancy"
    /\ want = [x |-> 1, y |-> 2, w |-> 3, h |-> 3]
    /\ content = Rect(2, 3, 1, 1)

\* C20. SetPos and SetSize address the outer rectangle: once called, the
\* outer bounding rectangle has the origin and the size they were given,
\* before and after any SetBorder; the content width and height are never
\* negative.
C20_OuterIsRequested ==
    /\ want.x >= 0 => (Outer.x = want.x /\ Outer.y = want.y)
    /\ want.w >= 0 => (Outer.width = want.w /\ Outer.height = want.h)
    /\ content.width >= 0 /\ content.height >= 0

\* ------------------------------------------------- the laws of the handlers
\* The byte the task handles in its next step.
Ch == buffer[i]

\* The task handles a byte: the handler returns or panics.
ByteTaken == pc = "disp" /\ mode # Raw /\ (i' = i + 1 \/ pc' = "panic")

\* The sink takes what the handler echoes.
Echoing == screen # "nil" /\ sinkok

Printable == SP..TILDE

\* The step calls emit: linechar handles a line terminator or a control
\* byte (directly, or from lineesc after a lone ESC), or console.Read failed.
EmitStep ==
    \/ /\ ByteStep /\ Ch \in {CR, LF} \cup CtlEmit
       /\ (~InEscape(Engine) \/ Len(output) = 1)
    \/ pc = "read" /\ pc' = "closing"

\* C24. Postcondition of emit: after every call of emit, also one made with
\* an empty output, output is empty, preescape is empty and linepos is -1.
C24_EmitPost ==
    [][EmitStep => (output' = <<>> /\ preescape' = <<>> /\ linepos' = -1)]_vars

\* C25. In every reachable state, a non-empty preescape comes with an output
\* that is non-empty and starts with ESC.
C25_PreescapeInEscape ==
    preescape # <<>> => (output # <<>> /\ output[1] = ESC)

C25_Witness == preescape = <<LOWER>> /\ output = <<ESC, LBRACK>>

\* What the fields and the echo are after handler result e.
Handled(e) ==
    /\ ~e.fault
    /\ output' = e.output /\ preescape' = e.preescape /\ last' = e.last
    /\ linepos' = e.linepos /\ wrote' = e.wrote

\* C26. Per-byte dispatch as stated: lineesc handles the byte if and only if
\* preescape is non-empty at that moment, linechar handles it otherwise.
C26_ByPreescape ==
    [][ByteStep =>
          IF preescape # <<>> THEN Handled(lineesc(Engine, Ch))
          ELSE Handled(linechar(Engine, Ch))]_vars

\* C26, amended. lineesc handles the byte if and only if output is non-empty
\* and starts with ESC, which is the case whenever preescape is non-empty and
\* also after an ESC typed on an empty line; linechar handles it otherwise.
C26_ByOutput ==
    [][ByteStep =>
          /\ preescape # <<>> => InEscape(Engine)
          /\ IF InEscape(Engine) THEN Handled(lineesc(Engine, Ch))
             ELSE Handled(linechar(Engine, Ch))]_vars

\* An ESC typed on an empty line: the next byte went to lineesc, which kept
\* the '[' without echo.
C26_Witness ==
    /\ output = <<ESC, LBRACK>> /\ preescape = <<>> /\ screen # "nil"
    /\ wrote = <<>> /\ nin = 2

\* C27. Backspace law: for BS and for DEL on a non-empty line, at the end
\* of the line the echo is BS, space, BS and the last byte is removed; with
\* 0 < linepos the echo is BS, output[linepos:], space and
\* len(output)-linepos+1 BS, output[linepos-1] is removed and linepos
\* decreases by one.
C27_Backspace ==
    [][(ByteTaken /\ ~InEscape(Engine) /\ Ch \in {BS, DEL} /\ output # <<>>
        /\ Echoing) =>
          /\ pc' # "panic"
          /\ linepos = -1 =>
                /\ wrote' = <<BS, SP, BS>>
                /\ output' = Take(output, Len(output) - 1)
                /\ linepos' = -1
          /\ linepos > 0 =>
                /\ wrote' = <<BS>> \o Drop(output, linepos) \o <<SP>>
                               \o Rep(BS, Len(output) - linepos + 1)
                /\ output' = Take(output, linepos - 1) \o Drop(output, linepos)
                /\ linepos' = linepos - 1]_vars

\* C28. Insert law: a printable byte c arriving with linepos >= 0 is echoed
\* as c, output[linepos:] and len(output)-linepos BS; output becomes
\* old[:linepos] + c + old[linepos:] and linepos increases by one.  With
\* linepos -1 the echo is c and c is appended.
C28_Insert ==
    [][(ByteTaken /\ ~InEscape(Engine) /\ Ch \in Printable /\ Echoing) =>
          /\ pc' # "panic"
          /\ linepos >= 0 =>
                /\ wrote' = <<Ch>> \o Drop(output, linepos)
                               \o Rep(BS, Len(output) - linepos)
                /\ output' = Take(output, linepos) \o <<Ch>>
                                \o Drop(output, linepos)
                /\ linepos' = linepos + 1
          /\ linepos = -1 =>
                /\ wrote' = <<Ch>> /\ output' = Append(output, Ch)
                /\ linepos' = -1]_vars

\* ------------------------------------------------------- the CSI sequences
\* The step handles the final byte b of a CSI sequence whose ESC arrived
\* outside any sequence.
CsiFinal(b) == ByteStep /\ Len(held.seq) >= 2 /\ held.rest /\ Ch = b

\* The bytes emit would send: the in-flight line.
InFlight == preescape \o output

RECURSIVE IsSubseq(_, _)
IsSubseq(s, t) ==
    IF s = <<>> THEN TRUE
    ELSE IF t = <<>> THEN FALSE
    ELSE IF Head(s) = Head(t) THEN IsSubseq(Tail(s), Tail(t))
    ELSE IsSubseq(s, Tail(t))

\* The step emits the line.
Emits == sendq = <<>> /\ sendq' # <<>>

\* C22. Unknown CSI sequences are kept: when ESC '[' params final completes
\* with a final byte other than A, B, C, D and ~, nothing is echoed and the
\* in-flight line is the line before the ESC followed by the sequence; its
\* bytes stay in the line, in order, whatever printable bytes follow, and
\* are in the chunk emitted when the line ends.
C22_UnknownKept ==
    [][/\ (\E b \in (AT..TILDE) \ KnownFinals : CsiFinal(b)) =>
             /\ wrote' = <<>>
             /\ InFlight' = held.line \o held.seq \o <<Ch>>
       /\ (ByteStep /\ kept # <<>> /\ Ch \in Printable) =>
             IsSubseq(kept', InFlight')
       /\ (Emits /\ kept # <<>>) => IsSubseq(kept, sendq'[1].b)]_vars

\* C23. Cursor saturation on a line of length n >= 1: each CSI D moves the
\* cursor one cell to the left and is echoed, from the end (-1) to n-1 and
\* down to 0, where further CSI D change nothing and echo nothing (so k >= n
\* of them leave linepos = 0 with n echoed); each CSI C moves it one cell to
\* the right and is echoed, reaching the end sets linepos to -1 (so n of them
\* bring it back to -1), and at -1 a CSI C changes and echoes nothing.
C23_Saturation ==
    [][/\ (CsiFinal(LEFT) /\ held.line # <<>>) =>
             /\ linepos' = IF held.pos = -1 THEN Len(held.line) - 1
                            ELSE IF held.pos > 0 THEN held.pos - 1 ELSE 0
             /\ Echoing => wrote' = IF held.pos = 0 THEN <<>> ELSE KeyLeft
       /\ (CsiFinal(RIGHT) /\ held.line # <<>>) =>
             /\ linepos' = IF held.pos = -1 \/ held.pos + 1 >= Len(held.line)
                            THEN -1 ELSE held.pos + 1
             /\ Echoing => wrote' = IF held.pos = -1 THEN <<>> ELSE KeyRight
      ]_vars

\* C29. UP with history: when CSI A completes and last is non-empty, output
\* becomes a copy of last, preescape empty and linepos -1; the echo is home
\* BS (home is linepos when >= 0, else the length of the old line), the new
\* output and, when the old line was longer by delta > 0, delta spaces and
\* delta BS.  Later edits of the line do not change last.
C29_Recall ==
    [][/\ (CsiFinal(UP) /\ last # <<>>) =>
             LET width == Len(held.line)
                 home == IF held.pos >= 0 THEN held.pos ELSE width
                 delta == width - Len(last)
             IN  /\ output' = last /\ preescape' = <<>> /\ linepos' = -1
                 /\ Echoing =>
                       wrote' = Rep(BS, home) \o last
                                  \o (IF delta > 0
                                      THEN Rep(SP, delta) \o Rep(BS, delta)
                                      ELSE <<>>)
       /\ (ByteStep /\ Ch \notin {CR, LF}) => last' = last]_vars

\* C30. UP without history: when CSI A completes while last is empty,
\* nothing is echoed, the in-flight line is the line as it was before the
\* ESC, preescape is empty and linepos is unchanged.
C30_NoRecall ==
    [][(CsiFinal(UP) /\ last = <<>>) =>
          /\ wrote' = <<>>
          /\ output' = held.line /\ preescape' = <<>>
          /\ linepos' = held.pos]_vars

\* --------------------------------------------------------------- the frame
\* The cursor position ESC [ row ; column H of the cell (x, y).
CursorAt(x, y) ==
    <<ESC, LBRACK>> \o Dec(y + 1) \o <<SEMI>> \o Dec(x + 1) \o <<CUP>>

\* Row r of a w bytes wide region.
RowBytes(r, w, h) ==
    IF border = "nil" THEN Rep(SP, w)
    ELSE IF r = 0
    THEN <<BorderByte(border, borderTopLeft)>>
         \o Rep(BorderByte(border, borderHorizontal), w - 2)
         \o <<BorderByte(border, borderTopRight)>>
    ELSE IF r = h - 1
    THEN <<BorderByte(border, borderBottomLeft)>>
         \o Rep(BorderByte(border, borderHorizontal), w - 2)
         \o <<BorderByte(border, borderBottomRight)>>
    ELSE <<BorderByte(border, borderVertical)>> \o Rep(SP, w - 2)
         \o <<BorderByte(border, borderVertical)>>

\* Rows r..h-1 of the outer rectangle o, each after its cursor position.
RECURSIVE RowsFrom(_, _)
RowsFrom(r, o) ==
    IF r >= o.height THEN <<>>
    ELSE CursorAt(o.x, o.y + r) \o RowBytes(r, o.width, o.height)
         \o RowsFrom(r + 1, o)

\* C21. Draw output: for a region with outer rectangle (x, y, w, h), Draw
\* writes for each row r = 0..h-1 in order the cursor position
\* ESC [ (y+r+1) ; (x+1) H and the w bytes of the row (the border's corners
\* and horizontals on the top and bottom rows, verticals around spaces on the
\* middle rows, w spaces without border), then the cursor position of the
\* content rectangle's top-left cell, and nothing else.
C21_DrawOutput ==
    [][(rop' = "Draw" /\ sinkok' = sinkok /\ Alive /\ Echoing) =>
          /\ pc' # "panic"
          /\ drawn' = RowsFrom(0, Outer) \o CursorAt(content.x, content.y)]_vars

C35_NeverFaults == mode = Line => pc # "panic"

\* C39. Draw never faults: after any sequence of SetSize, SetPos and
\* SetBorder with non-negative arguments, Draw allocates a row of
\* non-negative length and writes no index outside it.
C39_DrawNeverFaults == [][rop' = "Draw" => pc' # "panic"]_vars

\* The step handles byte b as the final byte of a CSI sequence whose ESC
\* arrived outside any sequence, whether or not the handler returns.
CsiLast(b) == ByteTaken /\ Len(held.seq) >= 2 /\ held.rest /\ Ch = b

AllPrintable(s) == \A j \in 1..Len(s) : s[j] \in Printable

\* C31. Known sequences are consumed invisibly: when a CSI sequence with
\* final byte 'B', 'C', 'D' or '~' completes on a line of printable bytes,
\* the in-flight line equals the line before the ESC, nothing is pushed and
\* last is unchanged; DOWN with linepos >= 0 echoes exactly the tail of the
\* line from the cursor and sets linepos to -1; '~' changes and echoes
\* nothing.
C31_KnownConsumed ==
    [][\A b \in {DOWN, RIGHT, LEFT, TILDE} :
         (CsiLast(b) /\ AllPrintable(held.line)) =>
            /\ pc' # "panic"
            /\ InFlight' = held.line /\ preescape' = <<>>
            /\ sendq' = <<>> /\ UNCHANGED <<next, last>>
            /\ (b = DOWN /\ linepos >= 0) =>
                  /\ Echoing => wrote' = Drop(held.line, linepos)
                  /\ linepos' = -1
            /\ b = TILDE => wrote' = <<>> /\ linepos' = linepos]_vars

\* The chunks the task has pushed in its current step and not yet handed
\* over, oldest first.
Pushed == [j \in 1..Len(sendq) |-> sendq[j].b]

\* The step hands a line terminator to linechar, directly or from lineesc
\* after a lone ESC.
TermStep ==
    ByteTaken /\ Ch \in {CR, LF} /\ (~InEscape(Engine) \/ Len(output) = 1)

\* C33. Terminator handling order: for '\r' or '\n' reaching linechar the
\* echo is exactly "\r\n" (after the ESC a lone ESC restores), the history
\* is updated from the line as it is before emit empties it, the line is
\* pushed as one chunk if it is non-empty, and the terminator byte follows
\* as its own chunk; an empty line yields the terminator chunk alone.
C33_Terminator ==
    [][TermStep =>
          LET L == InFlight
              E == IF InEscape(Engine) THEN <<ESC>> ELSE <<>>
          IN  /\ pc' # "panic"
              /\ Echoing => wrote' = E \o <<CR, LF>>
              /\ last' = IF L # <<>> /\ L[1] >= SP THEN L ELSE last
              /\ Pushed' = (IF L # <<>> THEN <<L>> ELSE <<>>) \o <<<<Ch>>>>
              /\ output' = <<>> /\ UNCHANGED next]_vars

\* 'a', '\r', '\n': three chunks, the last "\r\n" echoed for the '\n'.
C33_Witness ==
    /\ Len(next) = 3 /\ next[1].b = <<LOWER>> /\ next[2].b = <<CR>>
    /\ next[3].b = <<LF>> /\ sendq = <<>> /\ last = <<LOWER>>
    /\ wrote = <<CR, LF>> /\ output = <<>>

\* The step handles the byte typed after an ESC that arrived outside any
\* sequence, and the byte is not '['.
AbortStep == ByteTaken /\ held.seq = <<ESC>> /\ held.rest /\ Ch # LBRACK

\* C32. Aborted escape: when the byte after ESC is not '[', one ESC is
\* echoed, the line becomes the line before the ESC plus ESC with preescape
\* empty, and the byte is handled as linechar handles it on that line (a
\* printable byte is echoed and appended, BS removes the restored ESC, a
\* terminator emits the line); every later printable byte typed on that
\* line is echoed and appended as well.
C32_AbortedEscape ==
    [][/\ AbortStep =>
             LET L == held.line \o <<ESC>>
                 r == [Engine EXCEPT !.output = L, !.preescape = <<>>,
                                     !.wrote = IF Echoing THEN <<ESC>>
                                               ELSE <<>>,
                                     !.calls = IF Echoing THEN 1 ELSE 0]
             IN  /\ pc' # "panic"
                 /\ (screen = "nil" \/ sinkok) =>
                       /\ Handled(linechar(r, Ch))
                       /\ Pushed' = linechar(r, Ch).sent
                 /\ (Ch \in Printable /\ linepos = -1) =>
                       /\ InFlight' = L \o <<Ch>> /\ preescape' = <<>>
                       /\ Echoing => wrote' = <<ESC, Ch>>
                 /\ (Ch \in {BS, DEL} /\ linepos = -1) =>
                       InFlight' = held.line /\ preescape' = <<>>
                 /\ Ch \in {CR, LF} => Pushed' = <<L, <<Ch>>>>
       /\ (ByteTaken /\ held.ab /\ Ch \in Printable /\ linepos = -1) =>
             /\ pc' # "panic"
             /\ InFlight' = InFlight \o <<Ch>>
             /\ Echoing => wrote' = <<Ch>>]_vars

\* The engine as the handlers would find it with echo sink s that accepts
\* writes or not (ok).
EngineWith(s, ok) == [Engine EXCEPT !.screen = s, !.sinkok = ok]

\* Handler result e leaves the task where this step leaves it: the same
\* fault, or else the same line state and the same pushes.
SameOutcome(e) ==
    /\ e.fault = (pc' = "panic")
    /\ ~e.fault =>
          /\ e.output = output' /\ e.preescape = preescape'
          /\ e.last = last' /\ e.linepos = linepos'
          /\ e.sent = Pushed'

\* C36. Chunks do not depend on echo: what a handled byte (or the emit at a
\* failed console read) does to output, preescape, last and linepos, and
\* the chunks it pushes, are the same whether the sink is present, absent,
\* or fails its write; so for the same input the chunk sequences agree.
C36_ChunksIgnoreEcho ==
    [][\A s \in {"nil", "console"}, ok \in BOOLEAN :
          /\ ByteTaken => SameOutcome(dispatch(EngineWith(s, ok), Ch))
          /\ (pc = "read" /\ pc' = "closing") =>
                SameOutcome(emit(EngineWith(s, ok)))]_vars

\* The sink failed at the echo of 'a' and t.screen was cleared; the chunks
\* "a" and "\r" were pushed all the same.
C36_Witness ==
    /\ sinkerr /\ screen = "nil" /\ scrw = "task"
    /\ Len(next) = 2 /\ next[1].b = <<LOWER>> /\ next[2].b = <<CR>>
    /\ sendq = <<>>

\* Every push of handler result e was made after all the Write calls of
\* that handler call.
EchoFirst(e) == \A j \in 1..Len(e.seen) : e.seen[j] = e.calls

\* A consumer receives the chunk the task is blocked sending.
Receives == sendq # <<>> /\ sendq' = Tail(sendq)

\* C37. Echo precedes delivery: a handler makes all its echo writes before
\* its first push, so when a consumer receives a chunk the echo of every
\* byte up to the one that triggered it is on the sink; in particular the
\* "\r\n" of a terminator is written before its line chunk and its
\* terminator chunk can be read.
C37_EchoBeforeDelivery ==
    [][/\ ByteTaken => EchoFirst(dispatch(Engine, Ch))
       /\ (Receives /\ sendq[Len(sendq)].b \in {<<CR>>, <<LF>>}
           /\ screen # "nil") =>
             /\ Len(wrote) >= 2
             /\ Drop(wrote, Len(wrote) - 2) = <<CR, LF>>]_vars

\* A consumer has received the line chunk "a" and the task is blocked
\* sending the terminator chunk; the "\r\n" is on the sink.
C37_Witness ==
    /\ ncap = 0 /\ Pushed = <<<<CR>>>> /\ partial.n = 1 /\ ret.n = 1
    /\ wrote = <<CR, LF>> /\ pc # "panic" /\ nin = 2

\* The task has left its loop: the console read failed, or a handler
\* panicked.
Terminated == pc \in {"closing", "done", "panic"}

\* The task is blocked in a push on a channel that has no room.
Stalled == sendq # <<>> /\ Len(next) >= ncap

\* C38. A setter gets past t.update <- lock only in a step in which the task,
\* inside yield, takes its token, and returns only while the task waits for
\* that token; once the task has terminated, or while it is blocked pushing
\* into a full channel that nobody drains, no setter call gets past its
\* send and mode, bsize and screen are not written.
C38_SetterBlocks ==
    [][/\ \A s \in Setters :
            /\ (spos[s] = "idle" /\ spos'[s] # "idle") =>
                  /\ pc = "read" \/ (pc = "disp" /\ i = 1)
                  /\ sendq = <<>> /\ holder = 0 /\ holder' = s
            /\ (spos[s] = "release" /\ spos'[s] = "idle") => holder = s
       /\ (Terminated \/ Stalled) =>
            /\ Terminated' \/ Stalled'
            /\ \A s \in Setters : spos[s] = "idle" /\ spos'[s] = "idle"
            /\ UNCHANGED <<mode, bsize, screen, holder>>]_vars

\* SetLineBuffer went through at the first yield; then the task pushed "\r"
\* on the unbuffered channel and stays blocked, the setters with it.
C38_Witness ==
    /\ Stalled /\ ~Terminated /\ ncap = 0 /\ nset = 1
    /\ bsize = DefaultRawBufferSize /\ mode = Frame
    /\ \A s \in Setters : spos[s] = "idle"

====
